---- MODULE Spec2Model ----
(***************************************************************************)
(* Verification model of the flask_example repository:                    *)
(*   src/cluster/joker.py  - the GPU joke generator (prompt construction,  *)
(*                           answer extraction, the "/" and "/joke"        *)
(*                           request handlers)                             *)
(*   src/flask_test.py     - the teaching app; only shuffle_names is       *)
(*                           modelled                                      *)
(* Text is modelled as a sequence of one-character strings, so that the    *)
(* string operations of the code (in, split, replace, strip) act on        *)
(* characters exactly as Python's do.                                      *)
(***************************************************************************)
EXTENDS Integers, Sequences, FiniteSets, TLC

VARIABLES
    config,    \* joker.py: the module-level configuration set at startup
    req,       \* joker.py: the requests being handled, each with its locals
    btopic,    \* build_prompt: its argument
    bprompt,   \* build_prompt: its result
    bprompt2,  \* build_prompt: its result when called again with btopic
    bpc,       \* position of the build_prompt run: "start", "built", "rebuilt"
    text,      \* generate_joke: the decoded output of the model
    answer,    \* generate_joke: the answer extracted from text
    again,     \* the extraction applied to answer once more
    xpc,       \* position in the extraction: "decoded", "extracted", "reextracted"
    html_template,        \* flask_test.py: the template file read at startup
    sargs,                \* shuffle_names: the query parameters of the request
    name_list,            \* shuffle_names: the shuffled names
    shuffled_names_html,  \* shuffle_names: the rendered list
    page,                 \* shuffle_names: the page returned
    hpc                   \* position of shuffle_names: "received", "done"

\* The variables of the request handlers.
svars ==
    << config, req >>

\* The variables of the build_prompt runs.
bvars ==
    << btopic, bprompt, bprompt2, bpc >>

\* The variables of the extraction runs.
xvars ==
    << text, answer, again, xpc >>

\* The variables of the shuffle_names runs.
hvars ==
    << html_template, sargs, name_list, shuffled_names_html, page, hpc >>

vars ==
    << config, req, btopic, bprompt, bprompt2, bpc, text, answer, again, xpc,
       html_template, sargs, name_list, shuffled_names_html, page, hpc >>

(***************************************************************************)
(* Python string operations used by the code.                              *)
(***************************************************************************)

\* The characters str.strip() removes that occur in the modelled alphabet.
Whitespace ==
    {" ", "\n", "\t", "\r"}

\* str.find(sub, start): index of the leftmost occurrence of sub in s at or
\* after start (1-based), 0 when there is none.  sub is never empty here.
find(s, sub, start) ==
    LET hits == { i \in start..(Len(s) - Len(sub) + 1) :
                    SubSeq(s, i, i + Len(sub) - 1) = sub }
    IN  IF hits = {} THEN 0 ELSE CHOOSE i \in hits : \A j \in hits : i <= j

\* The `sub in s` operator of Python.
contains(s, sub) ==
    find(s, sub, 1) # 0

\* str.split(sep): the pieces between the non-overlapping occurrences of sep,
\* found scanning left to right.
RECURSIVE split_from(_, _, _)
split_from(s, sep, start) ==
    LET i == find(s, sep, start)
    IN  IF i = 0 THEN << SubSeq(s, start, Len(s)) >>
        ELSE << SubSeq(s, start, i - 1) >> \o split_from(s, sep, i + Len(sep))

split(s, sep) ==
    split_from(s, sep, 1)

\* str.replace(old, new): one left-to-right pass; text produced by a
\* replacement is not scanned again.
RECURSIVE replace_from(_, _, _, _)
replace_from(s, old, new, start) ==
    LET i == find(s, old, start)
    IN  IF i = 0 THEN SubSeq(s, start, Len(s))
        ELSE SubSeq(s, start, i - 1) \o new \o replace_from(s, old, new, i + Len(old))

\* A bug variant of replace: only the first occurrence is replaced.
replace_first(s, old, new) ==
    LET i == find(s, old, 1)
    IN  IF i = 0 THEN s
        ELSE SubSeq(s, 1, i - 1) \o new \o SubSeq(s, i + Len(old), Len(s))

replace(s, old, new) ==
    replace_from(s, old, new, 1)

RECURSIVE lstrip(_)
lstrip(s) ==
    IF s # << >> /\ Head(s) \in Whitespace THEN lstrip(Tail(s)) ELSE s

RECURSIVE rstrip(_)
rstrip(s) ==
    IF s # << >> /\ s[Len(s)] \in Whitespace THEN rstrip(SubSeq(s, 1, Len(s) - 1)) ELSE s

\* str.strip() with no argument.
strip(s) ==
    rstrip(lstrip(s))

(***************************************************************************)
(* joker.py: prompt construction and answer extraction.                    *)
(***************************************************************************)

\* marker = "<|assistant|>"
marker ==
    <<"<", "|", "a", "s", "s", "i", "s", "t", "a", "n", "t", "|", ">">>

\* The literal "<|endoftext|>" removed from the answer.
EndOfText ==
    <<"<", "|", "e", "n", "d", "o", "f", "t", "e", "x", "t", "|", ">">>

\* The literal "\n\n" at which the answer is cut.
DoubleNewline ==
    << "\n", "\n" >>

\* The part of the prompt template before the topic:
\*   "<|system|>\n"
\*   "You are a witty comedian. Tell short, clean jokes suitable for a classroom.\n"
\*   "Keep it to less than 400 characters. Avoid offensive content.\n"
\*   "<|user|>\n"
\*   "Tell me a joke about: "
PromptHead ==
    <<"<", "|", "s", "y", "s", "t", "e", "m", "|", ">", "\n", "Y", "o", "u", " ", "a",
      "r", "e", " ", "a", " ", "w", "i", "t", "t", "y", " ", "c", "o", "m", "e", "d",
      "i", "a", "n", ".", " ", "T", "e", "l", "l", " ", "s", "h", "o", "r", "t", ",",
      " ", "c", "l", "e", "a", "n", " ", "j", "o", "k", "e", "s", " ", "s", "u", "i",
      "t", "a", "b", "l", "e", " ", "f", "o", "r", " ", "a", " ", "c", "l", "a", "s",
      "s", "r", "o", "o", "m", ".", "\n", "K", "e", "e", "p", " ", "i", "t", " ", "t",
      "o", " ", "l", "e", "s", "s", " ", "t", "h", "a", "n", " ", "4", "0", "0", " ",
      "c", "h", "a", "r", "a", "c", "t", "e", "r", "s", ".", " ", "A", "v", "o", "i",
      "d", " ", "o", "f", "f", "e", "n", "s", "i", "v", "e", " ", "c", "o", "n", "t",
      "e", "n", "t", ".", "\n", "<", "|", "u", "s", "e", "r", "|", ">", "\n", "T", "e",
      "l", "l", " ", "m", "e", " ", "a", " ", "j", "o", "k", "e", " ", "a", "b", "o",
      "u", "t", ":", " ">>

\* The part of the prompt template after the topic: "\n" "<|assistant|>\n"
PromptTail ==
    <<"\n", "<", "|", "a", "s", "s", "i", "s", "t", "a", "n", "t", "|", ">", "\n">>

\* A bug variant of build_prompt: the f prefix of the topic line is missing,
\* so the placeholder is not interpolated.
build_prompt_not_interpolated(topic) ==
    PromptHead \o << "{", "t", "o", "p", "i", "c", "}" >> \o PromptTail

build_prompt(topic) ==
    PromptHead \o topic \o PromptTail

\* A bug variant of last_piece: the piece after the first separator.
second_piece(pieces) ==
    pieces[2]

\* The index [-1] applied to the result of split.
last_piece(pieces) ==
    pieces[Len(pieces)]

\* The post-processing of the decoded text in generate_joke.
extract_answer(decoded) ==
    LET answer0 == IF contains(decoded, marker)
                   THEN last_piece(split(decoded, marker))
                   ELSE decoded
        answer1 == strip(replace(answer0, EndOfText, << >>))
    IN  IF contains(answer1, DoubleNewline)
        THEN strip(split(answer1, DoubleNewline)[1])
        ELSE answer1

(***************************************************************************)
(* The extraction as a function of the decoded text: every decoded text of *)
(* the bounded set is extracted, and the result is extracted again.        *)
(***************************************************************************)

\* Most pieces a decoded text is assembled from.
MaxPieces ==
    4

\* Pieces of decoded text: halves of the two markers (so that markers can
\* appear whole, broken, or nested inside one another), a letter and
\* whitespace.
Pieces ==
    { << "<", "|", "a", "s", "s", "i", "s" >>, << "t", "a", "n", "t", "|", ">" >>,
      << "<", "|", "e", "n", "d", "o" >>, << "f", "t", "e", "x", "t", "|", ">" >>,
      << "a" >>, << " " >>, << "\n" >> }

RECURSIVE Concat(_)
Concat(ps) ==
    IF ps = << >> THEN << >> ELSE Head(ps) \o Concat(Tail(ps))

PieceTexts ==
    { Concat(ps) : ps \in UNION { [1..n -> Pieces] : n \in 0..MaxPieces } }

\* What may precede the completion: nothing, the end of the echoed prompt, or
\* the end of an echoed prompt whose topic ends in "<|assistant|>a".
Echoes ==
    { << >>, marker \o << "\n" >>, marker \o << "a" >> \o PromptTail }

\* "<|assistant|>\nWhy did X? Because Y.<|endoftext|>"
ExampleTail ==
    marker \o
    << "\n", "W", "h", "y", " ", "d", "i", "d", " ", "X", "?", " ",
       "B", "e", "c", "a", "u", "s", "e", " ", "Y", "." >> \o EndOfText

\* "Why did X? Because Y."
ExampleJoke ==
    << "W", "h", "y", " ", "d", "i", "d", " ", "X", "?", " ",
       "B", "e", "c", "a", "u", "s", "e", " ", "Y", "." >>

DecodedTexts ==
    { e \o t : e \in Echoes, t \in PieceTexts }
    \cup { p \o ExampleTail : p \in Pieces \cup { << >> } }

\* No extraction run, no build_prompt run, no server.
ExtractOff ==
    text = << >> /\ answer = << >> /\ again = << >> /\ xpc = "off"

PromptOff ==
    btopic = << >> /\ bprompt = << >> /\ bprompt2 = << >> /\ bpc = "off"

ServerOff ==
    config = << >> /\ req = << >>

ShuffleOff ==
    /\ html_template = << >> /\ sargs = << >> /\ name_list = << >>
    /\ shuffled_names_html = << >> /\ page = << >> /\ hpc = "off"

InitExtract ==
    /\ text \in DecodedTexts
    /\ answer = << >>
    /\ again = << >>
    /\ xpc = "decoded"
    /\ PromptOff
    /\ ServerOff
    /\ ShuffleOff

Extract ==
    /\ xpc = "decoded"
    /\ answer' = extract_answer(text)
    /\ xpc' = "extracted"
    /\ UNCHANGED << text, again, bvars, svars, hvars >>

ReExtract ==
    /\ xpc = "extracted"
    /\ again' = extract_answer(answer)
    /\ xpc' = "reextracted"
    /\ UNCHANGED << text, answer, bvars, svars, hvars >>

NextExtract ==
    \/ Extract
    \/ ReExtract

SpecExtract ==
    InitExtract /\ [][NextExtract]_vars

(***************************************************************************)
(* build_prompt as a function of the topic: every topic of the bounded set *)
(* is formatted, twice.                                                    *)
(***************************************************************************)

\* Most pieces a topic is assembled from.
MaxTopicPieces ==
    3

\* "<|user|>"
UserMarker ==
    << "<", "|", "u", "s", "e", "r", "|", ">" >>

\* Pieces of topics: letters, whitespace, and the turn markers of the prompt.
TopicPieces ==
    { << "a" >>, << "b" >>, << " " >>, << "\n" >>, marker, UserMarker }

Topics ==
    { Concat(ps) : ps \in UNION { [1..n -> TopicPieces] : n \in 1..MaxTopicPieces } }

InitPrompt ==
    /\ btopic \in Topics
    /\ bprompt = << >>
    /\ bprompt2 = << >>
    /\ bpc = "start"
    /\ ExtractOff
    /\ ServerOff
    /\ ShuffleOff

Build ==
    /\ bpc = "start"
    /\ bprompt' = build_prompt(btopic)
    /\ bpc' = "built"
    /\ UNCHANGED << btopic, bprompt2, xvars, svars, hvars >>

BuildAgain ==
    /\ bpc = "built"
    /\ bprompt2' = build_prompt(btopic)
    /\ bpc' = "rebuilt"
    /\ UNCHANGED << btopic, bprompt, xvars, svars, hvars >>

NextPrompt ==
    \/ Build
    \/ BuildAgain

SpecPrompt ==
    InitPrompt /\ [][NextPrompt]_vars

(***************************************************************************)
(* joker.py: the request handlers home ("/") and joke_api ("/joke").       *)
(* Flask serves requests concurrently, so the steps of different requests  *)
(* interleave.  A page returned by home is modelled by the template        *)
(* variables passed to render_template_string.                             *)
(***************************************************************************)

\* Most requests in flight at a time.
MaxRequests ==
    2

Requests ==
    1..MaxRequests

\* Python's None, a value that is no text.
None ==
    << "None" >>

\* The configurations the module-level code can set at startup: the defaults,
\* and one with JOKE_MODEL, MAX_NEW_TOKENS, TEMPERATURE and TOP_P overridden
\* in the environment.  LOAD_SECONDS is the measured load time, formatted.
Configs ==
    { [ MODEL_NAME |-> "TinyLlama/TinyLlama-1.1B-Chat-v1.0", MAX_NEW_TOKENS |-> 300,
        TEMPERATURE |-> "0.9", TOP_P |-> "0.95", DEVICE |-> "cuda:0",
        LOAD_SECONDS |-> "3.21" ],
      [ MODEL_NAME |-> "microsoft/phi-2", MAX_NEW_TOKENS |-> 64,
        TEMPERATURE |-> "0.7", TOP_P |-> "0.8", DEVICE |-> "cuda:0",
        LOAD_SECONDS |-> "8.40" ] }

\* torch.cuda.get_device_name(0)
DeviceName ==
    "NVIDIA A100-SXM4-40GB"

\* The query strings a request can carry: no topic parameter, an empty one, a
\* whitespace-only one, a topic surrounded by whitespace, and a plain topic.
QueryArgs ==
    { << >>,
      [ topic |-> << >> ],
      [ topic |-> << " ", "\n" >> ],
      [ topic |-> << " ", "a", "\n" >> ],
      [ topic |-> << "b" >> ] }

\* What the model can append to the prompt it echoes.
Completions ==
    { << "\n", "W", "h", "y", " ", "d", "i", "d", " ", "X", "?", " ",
         "B", "e", "c", "a", "u", "s", "e", " ", "Y", "." >> \o EndOfText,
      << "a", "\n", "\n", "b" >> }

\* Two readings of time.time() - t0, each as round(latency, 3) and as
\* f"{latency:.2f}".
Latencies ==
    { [ rounded3 |-> "0.517", fixed2 |-> "0.52" ],
      [ rounded3 |-> "1.204", fixed2 |-> "1.20" ] }

\* No response sent yet.
NoResponse ==
    [ status |-> 0, body |-> << >> ]

\* request.args.get(key): the parameter, None when it is absent.
args_get(args, key) ==
    IF key \in DOMAIN args THEN args[key] ELSE None

\* The `x or d` operator of Python for x a string or None.
py_or(x, d) ==
    IF x = None \/ x = << >> THEN d ELSE x

\* A bug variant of request_topic: the parameter is not stripped.
request_topic_not_stripped(args) ==
    py_or(args_get(args, "topic"), << >>)

\* topic = (request.args.get("topic") or "").strip()
request_topic(args) ==
    strip(py_or(args_get(args, "topic"), << >>))

\* A request slot: the request and the locals of its handler.  calls lists
\* the prompts model.generate was invoked with for this request, returns
\* counts the invocations that have returned.
FreshRequest(route, args) ==
    [ pc |-> "received", route |-> route, args |-> args, topic |-> << >>,
      prompt |-> << >>, joke |-> << >>, calls |-> << >>, returns |-> 0,
      response |-> NoResponse ]

IdleRequest ==
    [ FreshRequest("", << >>) EXCEPT !.pc = "idle" ]

\* The page home renders when the topic is missing.
home_error_page ==
    [ status |-> 200,
      body |-> [ model_name |-> config.MODEL_NAME, device_name |-> DeviceName,
                 load_seconds |-> config.LOAD_SECONDS, topic |-> << >>,
                 joke |-> << >>, latency |-> "",
                 error |-> "Please enter a topic to generate a joke." ] ]

\* The page home renders for a joke.
home_joke_page(topic, joke, latency) ==
    [ status |-> 200,
      body |-> [ model_name |-> config.MODEL_NAME, device_name |-> DeviceName,
                 load_seconds |-> config.LOAD_SECONDS, topic |-> topic,
                 joke |-> joke, latency |-> latency.fixed2, error |-> "" ] ]

\* A bug variant of joke_api_error: the status is left out, so Flask sends 200.
joke_api_error_without_status ==
    [ status |-> 200,
      body |-> [ error |-> "Missing required query parameter: topic" ] ]

\* The error object of joke_api with its status.
joke_api_error ==
    [ status |-> 400,
      body |-> [ error |-> "Missing required query parameter: topic" ] ]

\* The object joke_api returns for a joke.
joke_api_result(topic, joke, latency) ==
    [ status |-> 200,
      body |-> [ topic |-> topic, joke |-> joke, model |-> config.MODEL_NAME,
                 device |-> DeviceName, latency_seconds |-> latency.rounded3 ] ]

InitServer ==
    /\ config \in Configs
    /\ req = [ r \in Requests |-> IdleRequest ]
    /\ ExtractOff
    /\ PromptOff
    /\ ShuffleOff

\* Flask dispatches a request to its handler.
Arrive(r) ==
    /\ req[r].pc = "idle"
    /\ \E route \in { "/", "/joke" }, args \in QueryArgs :
          req' = [ req EXCEPT ![r] = FreshRequest(route, args) ]
    /\ UNCHANGED << config, bvars, xvars, hvars >>

\* A bug variant of home_begin: the topic is kept in a module-level variable
\* that every request in flight reads.
home_begin_global_topic(r) ==
    /\ req[r].pc = "received"
    /\ req[r].route = "/"
    /\ LET topic == request_topic(req[r].args)
       IN  IF topic = << >>
           THEN req' = [ req EXCEPT ![r].pc = "done",
                                    ![r].response = home_error_page ]
           ELSE req' = [ q \in Requests |->
                           IF q = r
                           THEN [ req[q] EXCEPT !.pc = "call", !.topic = topic ]
                           ELSE IF req[q].pc \in { "call", "generating", "generated" }
                           THEN [ req[q] EXCEPT !.topic = topic ]
                           ELSE req[q] ]
    /\ UNCHANGED << config, bvars, xvars, hvars >>

\* home up to the topic check: the error page, or on to generate_joke.
home_begin(r) ==
    /\ req[r].pc = "received"
    /\ req[r].route = "/"
    /\ LET topic == request_topic(req[r].args)
       IN  IF topic = << >>
           THEN req' = [ req EXCEPT ![r].pc = "done",
                                    ![r].response = home_error_page ]
           ELSE req' = [ req EXCEPT ![r].pc = "call", ![r].topic = topic ]
    /\ UNCHANGED << config, bvars, xvars, hvars >>

\* joke_api up to the topic check: the error object, or on to generate_joke.
joke_api_begin(r) ==
    /\ req[r].pc = "received"
    /\ req[r].route = "/joke"
    /\ LET topic == request_topic(req[r].args)
       IN  IF topic = << >>
           THEN req' = [ req EXCEPT ![r].pc = "done",
                                    ![r].response = joke_api_error ]
           ELSE req' = [ req EXCEPT ![r].pc = "call", ![r].topic = topic ]
    /\ UNCHANGED << config, bvars, xvars, hvars >>

\* A bug variant of generate_joke_call: model.generate is invoked a second
\* time with the same prompt.
generate_joke_call_twice(r) ==
    /\ req[r].pc = "call"
    /\ LET prompt == build_prompt(req[r].topic)
       IN  req' = [ req EXCEPT ![r].pc = "generating",
                               ![r].prompt = prompt,
                               ![r].calls = @ \o << prompt, prompt >> ]
    /\ UNCHANGED << config, bvars, xvars, hvars >>

\* generate_joke up to the invocation of model.generate.
generate_joke_call(r) ==
    /\ req[r].pc = "call"
    /\ LET prompt == build_prompt(req[r].topic)
       IN  req' = [ req EXCEPT ![r].pc = "generating",
                               ![r].prompt = prompt,
                               ![r].calls = Append(@, prompt) ]
    /\ UNCHANGED << config, bvars, xvars, hvars >>

\* model.generate returns the prompt followed by a completion; generate_joke
\* decodes it, extracts the answer and returns it to the handler, which ends
\* the life of its locals prompt and text.
generate_joke_return(r) ==
    /\ req[r].pc = "generating"
    /\ \E c \in Completions :
          LET decoded == req[r].prompt \o c
          IN  req' = [ req EXCEPT ![r].pc = "generated",
                                  ![r].prompt = << >>,
                                  ![r].joke = extract_answer(decoded),
                                  ![r].returns = @ + 1 ]
    /\ UNCHANGED << config, bvars, xvars, hvars >>

\* home after generate_joke: the latency is taken and the page rendered.
home_respond(r) ==
    /\ req[r].pc = "generated"
    /\ req[r].route = "/"
    /\ \E latency \in Latencies :
          req' = [ req EXCEPT ![r].pc = "done",
                              ![r].response =
                                  home_joke_page(req[r].topic, req[r].joke, latency) ]
    /\ UNCHANGED << config, bvars, xvars, hvars >>

\* joke_api after generate_joke: the latency is taken and the object returned.
joke_api_respond(r) ==
    /\ req[r].pc = "generated"
    /\ req[r].route = "/joke"
    /\ \E latency \in Latencies :
          req' = [ req EXCEPT ![r].pc = "done",
                              ![r].response =
                                  joke_api_result(req[r].topic, req[r].joke, latency) ]
    /\ UNCHANGED << config, bvars, xvars, hvars >>

\* Flask sends the response and drops the request with its locals; the slot
\* is free for the next request.
Finish(r) ==
    /\ req[r].pc = "done"
    /\ req' = [ req EXCEPT ![r] = IdleRequest ]
    /\ UNCHANGED << config, bvars, xvars, hvars >>

Next ==
    \E r \in Requests :
        \/ Arrive(r)
        \/ Finish(r)
        \/ home_begin(r)
        \/ joke_api_begin(r)
        \/ generate_joke_call(r)
        \/ generate_joke_return(r)
        \/ home_respond(r)
        \/ joke_api_respond(r)

Spec ==
    InitServer /\ [][Next]_vars

(***************************************************************************)
(* flask_test.py: shuffle_names ("/shuffle").  The handler reads the       *)
(* template read at startup and writes nothing shared, so a request is     *)
(* handled in one step.                                                    *)
(***************************************************************************)

\* Longest names parameter.
MaxNamesLen ==
    5

\* The characters of a names parameter: letters, the separator and a blank.
NameChars ==
    { "a", "b", ",", " " }

\* The query strings a request can carry: no names parameter, or one of up
\* to MaxNamesLen characters.
ShuffleArgs ==
    { << >> } \cup
    { [ names |-> t ] : t \in UNION { [1..n -> NameChars] : n \in 0..MaxNamesLen } }

\* "{{ shuffled_names }}"
Placeholder ==
    << "{", "{", " ", "s", "h", "u", "f", "f", "l", "e", "d", "_", "n", "a", "m", "e", "s", " ", "}", "}" >>

\* The contents templates/random_generator.html can have: the placeholder
\* inside a body, the placeholder twice, and no placeholder.
Templates ==
    { << "<", "p", ">" >> \o Placeholder \o << "<", "/", "p", ">" >>,
      Placeholder \o << "-" >> \o Placeholder,
      << "<", "p", ">", "<", "/", "p", ">" >> }

\* "<h2>🔀 Shuffled Order 🔀</h2><ul>"; the string "U+1F500" stands for the one
\* character 🔀.
ListOpen ==
    << "<", "h", "2", ">", "U+1F500", " ", "S", "h", "u", "f", "f", "l", "e", "d", " ",
       "O", "r", "d", "e", "r", " ", "U+1F500", "<", "/", "h", "2", ">",
       "<", "u", "l", ">" >>

\* "</ul>"
ListClose ==
    << "<", "/", "u", "l", ">" >>

\* f"<li>{name}</li>"
list_item(name) ==
    << "<", "l", "i", ">" >> \o name \o << "<", "/", "l", "i", ">" >>

\* "".join(parts)
RECURSIVE join(_)
join(parts) ==
    IF parts = << >> THEN << >> ELSE Head(parts) \o join(Tail(parts))

\* request.args.get(key, default)
args_get_default(args, key, default) ==
    IF key \in DOMAIN args THEN args[key] ELSE default

\* A bug variant of stripped_names: empty entries are kept.
stripped_names_with_empty(names) ==
    LET parts == split(names, << "," >>)
    IN  [ i \in 1..Len(parts) |-> strip(parts[i]) ]

\* [name.strip() for name in names.split(",") if name.strip()]
stripped_names(names) ==
    LET parts    == split(names, << "," >>)
        nonempty(part) == strip(part) # << >>
        kept     == SelectSeq(parts, nonempty)
    IN  [ i \in 1..Len(kept) |-> strip(kept[i]) ]

\* A bug variant of shuffle: each position is drawn from the list
\* independently (random.choices), so names can repeat or go missing.
shuffle_with_replacement(lst) ==
    [ 1..Len(lst) -> { lst[i] : i \in 1..Len(lst) } ]

\* random.shuffle(lst): the orders the list can be left in.
shuffle(lst) ==
    { [ i \in 1..Len(lst) |-> lst[p[i]] ] : p \in Permutations(1..Len(lst)) }

InitShuffle ==
    /\ html_template \in Templates
    /\ sargs \in ShuffleArgs
    /\ name_list = << >>
    /\ shuffled_names_html = << >>
    /\ page = << >>
    /\ hpc = "received"
    /\ ExtractOff
    /\ PromptOff
    /\ ServerOff

shuffle_names ==
    /\ hpc = "received"
    /\ LET names == args_get_default(sargs, "names", << >>)
       IN  IF names # << >>
           THEN \E shuffled \in shuffle(stripped_names(names)) :
                  /\ name_list' = shuffled
                  /\ shuffled_names_html' =
                        ListOpen
                        \o join([ i \in 1..Len(shuffled) |-> list_item(shuffled[i]) ])
                        \o ListClose
           ELSE /\ name_list' = << >>
                /\ shuffled_names_html' = << >>
    /\ page' = replace(html_template, Placeholder, shuffled_names_html')
    /\ hpc' = "done"
    /\ UNCHANGED << html_template, sargs, bvars, xvars, svars >>

NextShuffle ==
    shuffle_names

SpecShuffle ==
    InitShuffle /\ [][NextShuffle]_vars

(***************************************************************************)
(* Properties of the extraction.  The expected answer is stated in terms   *)
(* of the positions at which a marker occurs in a text, independently of   *)
(* the left-to-right scans of split and replace.                           *)
(***************************************************************************)

Least(S) ==
    CHOOSE i \in S : \A j \in S : i <= j

Greatest(S) ==
    CHOOSE i \in S : \A j \in S : j <= i

\* The positions at which p occurs in s.
Occurrences(s, p) ==
    { i \in 1..(Len(s) - Len(p) + 1) : SubSeq(s, i, i + Len(p) - 1) = p }

\* The text after the last occurrence of p in s.
AfterLast(s, p) ==
    SubSeq(s, Greatest(Occurrences(s, p)) + Len(p), Len(s))

\* The text before the first occurrence of p in s; s itself when there is none.
BeforeFirst(s, p) ==
    IF Occurrences(s, p) = {} THEN s
    ELSE SubSeq(s, 1, Least(Occurrences(s, p)) - 1)

\* Position k of s lies inside an occurrence of p.
Inside(s, p, k) ==
    \E i \in (k - Len(p) + 1)..k :
        i >= 1 /\ i + Len(p) - 1 <= Len(s) /\ SubSeq(s, i, i + Len(p) - 1) = p

\* The first k characters of s without those that lie inside an occurrence
\* of p in s.
RECURSIVE WithoutUpTo(_, _, _)
WithoutUpTo(s, p, k) ==
    IF k = 0 THEN << >>
    ELSE IF Inside(s, p, k) THEN WithoutUpTo(s, p, k - 1)
    ELSE Append(WithoutUpTo(s, p, k - 1), s[k])

\* s without the characters that lie inside an occurrence of p.
Without(s, p) ==
    WithoutUpTo(s, p, Len(s))

\* s without its leading and trailing whitespace.
Trimmed(s) ==
    LET ink == { i \in 1..Len(s) : s[i] \notin Whitespace }
    IN  IF ink = {} THEN << >> ELSE SubSeq(s, Least(ink), Greatest(ink))

EndsWith(s, p) ==
    Len(s) >= Len(p) /\ SubSeq(s, Len(s) - Len(p) + 1, Len(s)) = p

\* End-of-text markers removed, whitespace trimmed, cut at the first double
\* newline of the trimmed text, trimmed again.
Cleaned(s) ==
    Trimmed(BeforeFirst(Trimmed(Without(s, EndOfText)), DoubleNewline))

\* C4: when the decoded text contains the assistant marker, the answer is the
\* text after the marker's last occurrence with every end-of-text marker of
\* it removed, cut at the first double newline (surrounding whitespace is
\* trimmed before and after the cut); the decoded text
\* "...<|assistant|>\nWhy did X? Because Y.<|endoftext|>" gives
\* "Why did X? Because Y.".
C4_AnswerFollowsLastMarker ==
    (xpc # "decoded" /\ Occurrences(text, marker) # {}) =>
        /\ answer = Cleaned(AfterLast(text, marker))
        /\ EndsWith(text, ExampleTail) => answer = ExampleJoke

\* C4 witness: an extracted text with several assistant markers and, after
\* the last of them, text that is trimmed and cut at a double newline.
C4_Witness ==
    /\ xpc = "extracted"
    /\ Cardinality(Occurrences(text, marker)) >= 2
    /\ AfterLast(text, marker) # Trimmed(AfterLast(text, marker))
    /\ Occurrences(Trimmed(AfterLast(text, marker)), DoubleNewline) # {}
    /\ answer # << >>

\* C4 witness for the example of the claim.
C4_ExampleWitness ==
    xpc = "extracted" /\ EndsWith(text, ExampleTail) /\ answer = ExampleJoke

\* C5 as stated: when the decoded text has no assistant marker, the answer is
\* the decoded text unchanged apart from the removal of end-of-text markers.
C5_Original_ReturnedVerbatim ==
    (xpc # "decoded" /\ Occurrences(text, marker) = {}) =>
        answer = Without(text, EndOfText)

\* C5 amended: when the decoded text has no assistant marker, the answer is
\* the whole decoded text with its end-of-text markers removed, its
\* surrounding whitespace trimmed, and cut at its first double newline.
C5_WholeTextCleaned ==
    (xpc # "decoded" /\ Occurrences(text, marker) = {}) =>
        answer = Cleaned(text)

\* C5 witness: a marker-free decoded text from which an end-of-text marker was
\* removed and whose answer is not the remaining text verbatim.
C5_Witness ==
    /\ xpc = "extracted"
    /\ Occurrences(text, marker) = {}
    /\ Occurrences(text, EndOfText) # {}
    /\ answer # << >>
    /\ answer # Without(text, EndOfText)

\* C6: extracting an already extracted answer returns it unchanged.
C6_ExtractionIdempotent ==
    xpc = "reextracted" => again = answer

\* C9: the answer has no double newline, no leading or trailing whitespace,
\* and contains neither the assistant marker nor the end-of-text marker.
C9_AnswerClean ==
    xpc # "decoded" =>
        /\ Occurrences(answer, DoubleNewline) = {}
        /\ answer = Trimmed(answer)
        /\ Occurrences(answer, marker) = {}
        /\ Occurrences(answer, EndOfText) = {}

(***************************************************************************)
(* Properties of build_prompt.                                             *)
(***************************************************************************)

\* C3: the prompt of a non-empty topic is the same whenever it is built, and
\* holds the topic at a position after a user-turn marker and before the last
\* assistant-turn marker, which is followed by a newline and nothing else.
C3_TopicBetweenMarkers ==
    /\ bpc = "rebuilt" => bprompt2 = bprompt
    /\ bpc \in { "built", "rebuilt" } =>
          LET last == Greatest(Occurrences(bprompt, marker))
          IN  /\ Occurrences(bprompt, marker) # {}
              /\ last + Len(marker) = Len(bprompt)
              /\ bprompt[Len(bprompt)] = "\n"
              /\ \E i \in Occurrences(bprompt, btopic) :
                    /\ \E u \in Occurrences(bprompt, UserMarker) :
                          u + Len(UserMarker) <= i
                    /\ i + Len(btopic) <= last

\* C3 witness: a prompt built twice for a topic that itself contains both
\* turn markers.
C3_Witness ==
    /\ bpc = "rebuilt"
    /\ Occurrences(btopic, marker) # {}
    /\ Occurrences(btopic, UserMarker) # {}
    /\ Cardinality(Occurrences(bprompt, marker)) = 2

(***************************************************************************)
(* Properties of the request handlers.                                     *)
(***************************************************************************)

\* The text of the topic parameter of a request, empty when it is absent.
TopicParameter(r) ==
    IF "topic" \in DOMAIN req[r].args THEN req[r].args["topic"] ELSE << >>

\* The request has no topic: the parameter is absent, empty or whitespace.
TopicMissing(r) ==
    Trimmed(TopicParameter(r)) = << >>

\* The request has been answered.
Answered(r) ==
    req[r].response # NoResponse

\* The response of the request reports an error.
ReportsError(r) ==
    IF req[r].route = "/joke"
    THEN "error" \in DOMAIN req[r].response.body
    ELSE req[r].response.body.error # ""

\* C1: a request to either entry point whose topic is absent, empty or
\* whitespace takes the missing-topic error path, and model.generate is never
\* invoked for it.
C1_MissingTopicNeverGenerates ==
    \A r \in Requests :
        (req[r].pc # "idle" /\ TopicMissing(r)) =>
            /\ req[r].calls = << >>
            /\ req[r].pc \in { "received", "done" }
            /\ req[r].pc = "done" => (Answered(r) /\ ReportsError(r))

\* C1 witness: a whitespace-only topic answered with the error of joke_api and
\* an absent topic answered with the error page of home.
C1_Witness ==
    \E r, q \in Requests :
        /\ req[r].pc = "done" /\ req[r].route = "/joke"
        /\ TopicParameter(r) = << " ", "\n" >>
        /\ req[r].response.status = 400
        /\ req[q].pc = "done" /\ req[q].route = "/"
        /\ req[q].args = << >>
        /\ ReportsError(q)

\* C2: a response reports an error exactly when the trimmed topic is empty.
\* Then joke_api returns an error object with status 400 and home the page
\* with a validation message and empty topic and joke.  Otherwise joke_api
\* returns an object with exactly the fields topic, joke, model, device and
\* latency_seconds whose topic is the trimmed topic of the request, and home
\* the page with an empty error and the trimmed topic.
C2_ErrorIffTopicMissing ==
    \A r \in Requests :
        Answered(r) =>
            LET resp == req[r].response
            IN  /\ ReportsError(r) <=> TopicMissing(r)
                /\ (TopicMissing(r) /\ req[r].route = "/joke") =>
                      /\ resp.status = 400
                      /\ DOMAIN resp.body = { "error" }
                /\ (TopicMissing(r) /\ req[r].route = "/") =>
                      /\ resp.body.error # ""
                      /\ resp.body.topic = << >>
                      /\ resp.body.joke = << >>
                /\ (~TopicMissing(r) /\ req[r].route = "/joke") =>
                      /\ DOMAIN resp.body =
                            { "topic", "joke", "model", "device", "latency_seconds" }
                      /\ resp.body.topic = Trimmed(TopicParameter(r))
                /\ (~TopicMissing(r) /\ req[r].route = "/") =>
                      /\ resp.body.error = ""
                      /\ resp.body.topic = Trimmed(TopicParameter(r))

\* C2 witness: joke_api has answered one request with an error and another,
\* whose topic had surrounding whitespace, with a joke.
C2_Witness ==
    \E r, q \in Requests :
        /\ Answered(r) /\ req[r].route = "/joke" /\ TopicMissing(r)
        /\ Answered(q) /\ req[q].route = "/joke" /\ ~TopicMissing(q)
        /\ TopicParameter(q) # Trimmed(TopicParameter(q))
        /\ req[q].response.body.joke # << >>

\* C7: for a request with a non-empty trimmed topic model.generate is invoked
\* at most once, with the prompt built from the trimmed topic; the response
\* is sent only after that one invocation has returned.
C7_GeneratedExactlyOnce ==
    \A r \in Requests :
        (req[r].pc # "idle" /\ ~TopicMissing(r)) =>
            /\ Len(req[r].calls) <= 1
            /\ req[r].returns <= Len(req[r].calls)
            /\ req[r].pc \in { "generating", "generated", "done" } =>
                  req[r].calls = << build_prompt(Trimmed(TopicParameter(r))) >>
            /\ Answered(r) <=> req[r].pc = "done"
            /\ Answered(r) => req[r].returns = 1

\* C7 witness: two requests with different topics both answered, each after
\* one invocation.
C7_Witness ==
    \E r, q \in Requests :
        /\ Answered(r) /\ Answered(q)
        /\ ~TopicMissing(r) /\ ~TopicMissing(q)
        /\ req[r].topic # req[q].topic
        /\ req[r].returns = 1 /\ req[q].returns = 1

\* The topic a response echoes is the topic of its own request.
EchoesOwnTopic ==
    \A r \in Requests :
        (Answered(r) /\ ~TopicMissing(r)) =>
            req[r].response.body.topic = Trimmed(TopicParameter(r))

\* A step leaves the configuration alone and changes one request at most.
TouchesOneRequest ==
    /\ config' = config
    /\ Cardinality({ r \in Requests : req'[r] # req[r] }) <= 1

\* The topic, prompt and joke a request works with are its own.
OwnLocals ==
    \A r \in Requests :
        (req[r].pc \in { "call", "generating", "generated" }) =>
            /\ req[r].topic = Trimmed(TopicParameter(r))
            /\ req[r].pc = "generating" =>
                  req[r].prompt = build_prompt(req[r].topic)

\* C8: handling a request changes no shared state: the configuration set at
\* startup never changes, a step of one request changes nothing of another,
\* and the topic a response echoes is the topic of its own request.
C8_NoSharedMutableState ==
    /\ [](EchoesOwnTopic /\ OwnLocals)
    /\ [][TouchesOneRequest]_vars

\* C8 witness: two interleaved requests with different topics, each answered
\* with its own topic.
C8_Witness ==
    \E r, q \in Requests :
        /\ Answered(r) /\ Answered(q)
        /\ ~TopicMissing(r) /\ ~TopicMissing(q)
        /\ req[r].args # req[q].args
        /\ req[r].response.body.topic = << "a" >>
        /\ req[q].response.body.topic = << "b" >>

(***************************************************************************)
(* Properties of shuffle_names.                                            *)
(***************************************************************************)

\* The k-th smallest element of a set of numbers.
Nth(S, k) ==
    CHOOSE x \in S : Cardinality({ y \in S : y <= x }) = k

\* The names parameter of the request, empty when it is absent.
NamesParameter ==
    IF "names" \in DOMAIN sargs THEN sargs["names"] ELSE << >>

\* The comma-separated fields of s, in order.
Fields(s) ==
    LET cuts == { 0, Len(s) + 1 } \cup { i \in 1..Len(s) : s[i] = "," }
    IN  [ j \in 1..(Cardinality(cuts) - 1) |->
            SubSeq(s, Nth(cuts, j) + 1, Nth(cuts, j + 1) - 1) ]

\* The items of the lists rendered in an HTML text: the texts between each
\* "<li>" and the "</li>" that follows it, in order.
ListItems(html) ==
    LET li     == << "<", "l", "i", ">" >>
        endli  == << "<", "/", "l", "i", ">" >>
        opens  == Occurrences(html, li)
        closes == Occurrences(html, endli)
    IN  [ j \in 1..Cardinality(opens) |->
            LET from == Nth(opens, j) + Len(li)
            IN  SubSeq(html, from, Least({ c \in closes : c >= from }) - 1) ]

\* How often x is an element of the sequence seq.
Count(seq, x) ==
    Cardinality({ i \in 1..Len(seq) : seq[i] = x })

\* The two sequences hold the same elements the same number of times.
SameMultiset(f, g) ==
    /\ Len(f) = Len(g)
    /\ \A i \in 1..Len(f) : Count(f, f[i]) = Count(g, f[i])

\* The trimmed, non-empty comma-separated entries of the names parameter.
Entries ==
    LET trimmed == [ j \in 1..Len(Fields(NamesParameter)) |->
                       Trimmed(Fields(NamesParameter)[j]) ]
        nonempty(e) == e # << >>
    IN  SelectSeq(trimmed, nonempty)

\* C10: for a non-empty names parameter the list items rendered into each
\* placeholder of the template are a permutation of the trimmed, non-empty
\* comma-separated entries of names; for an absent or empty names parameter
\* no list is rendered and the placeholder is replaced by the empty text.
C10_ShuffleIsPermutation ==
    hpc = "done" =>
        /\ NamesParameter # << >> =>
              /\ SameMultiset(ListItems(shuffled_names_html), Entries)
              /\ SameMultiset(name_list, Entries)
              /\ Cardinality(Occurrences(shuffled_names_html, ListClose)) = 1
              /\ Cardinality(Occurrences(page, ListOpen)) =
                    Cardinality(Occurrences(html_template, Placeholder))
              /\ Len(ListItems(page)) =
                    Len(Entries) * Cardinality(Occurrences(html_template, Placeholder))
        /\ NamesParameter = << >> =>
              /\ shuffled_names_html = << >>
              /\ page = Without(html_template, Placeholder)
              /\ ListItems(page) = << >>

\* C10 witness: a names parameter with a blank and an empty entry whose two
\* names are rendered in the other order.
C10_Witness ==
    /\ hpc = "done"
    /\ NamesParameter = << " ", "a", ",", ",", "b" >>
    /\ ListItems(page) = << << "b" >>, << "a" >> >>

\* C10 witness for the absent parameter: the placeholder is gone from the page.
C10_AbsentWitness ==
    /\ hpc = "done"
    /\ sargs = << >>
    /\ Occurrences(html_template, Placeholder) # {}
    /\ page = << "<", "p", ">", "<", "/", "p", ">" >>

====
